---- MODULE Spec2Model ----
(***************************************************************************)
(* SaccharumVision: the prediction operations of utils/model_manager.py    *)
(* (ModelManager) and their two callers (app.py /api/predict and           *)
(* tests/test_comparison_models.py).                                       *)
(*                                                                         *)
(* Numbers.  Model outputs, probabilities, confidences and thresholds are  *)
(* exact rationals [n |-> numerator, d |-> denominator], d > 0; float32    *)
(* rounding is not modelled.  Python sequences are 0-based, the sequences  *)
(* here are 1-based.                                                       *)
(*                                                                         *)
(* Environment.  Everything a call gets from outside the class (the file   *)
(* on disk, the Keras model, TensorFlow's random augmentations, numpy's    *)
(* tie order in argsort) is drawn when the call is made and kept in the    *)
(* record w:                                                               *)
(*   w.baseOut   the model's output on the un-augmented tensor             *)
(*   w.augOuts   the model's outputs on the augmented tensors, in order    *)
(*   w.argsort   the permutation np.argsort returns for w.baseOut          *)
(*   w.fail      the external call that raises ("none" when none does)     *)
(***************************************************************************)
EXTENDS Integers, Sequences, FiniteSets

VARIABLES
    \* one ModelManager instance
    classes,        \* self.classes, as the sequence of its items
    classes_type,   \* the Python type of self.classes
    model,          \* self.model: None or "loaded"
    img_size,       \* self.img_size
    model_type,     \* self.model_type
    preprocess_fn,  \* self.preprocess_fn
    \* the last call made on it
    call, result, inferences,
    \* app.py
    loaded_models,  \* the cache: model name -> instance, None when absent
    constructions,  \* the ModelManager(...) calls made so far, in order
    requests,       \* the /api/predict requests in flight
    clock,          \* datetime.now(), in seconds
    uploads         \* the upload folder: saved path -> the upload it holds

instanceVars == <<classes, classes_type, model, img_size, model_type, preprocess_fn>>

callVars == <<call, result, inferences>>

appVars == <<loaded_models, constructions, requests, clock, uploads>>

vars == <<classes, classes_type, model, img_size, model_type, preprocess_fn,
          call, result, inferences,
          loaded_models, constructions, requests, clock, uploads>>

(***************************************************************************)
(* Bounds                                                                  *)
(***************************************************************************)
MaxAugmentations == 2

MaxBatch == 2

MaxConstructions == 3

MaxRequests == 2

MaxClock == 1

MaxLoads == 2

(***************************************************************************)
(* Exact rational arithmetic                                               *)
(***************************************************************************)
R(n, d) == [n |-> n, d |-> d]

RLt(a, b) == a.n * b.d < b.n * a.d

REq(a, b) == a.n * b.d = b.n * a.d

RAdd(a, b) ==
    IF a.d = b.d THEN [n |-> a.n + b.n, d |-> a.d]
    ELSE [n |-> a.n * b.d + b.n * a.d, d |-> a.d * b.d]

RMulInt(a, k) == [n |-> a.n * k, d |-> a.d]

RDivInt(a, k) == [n |-> a.n, d |-> a.d * k]

(***************************************************************************)
(* Python values                                                           *)
(***************************************************************************)
None == [tag |-> "None"]

Raise(e) == [tag |-> "raise", exc |-> e]

\* a Python list, tagged so that it can be told from None
List(items) == [tag |-> "list", items |-> items]

IsRaise(x) == "tag" \in DOMAIN x /\ x.tag = "raise"

Reverse(s) == [i \in 1..Len(s) |-> s[Len(s) + 1 - i]]

LastN(s, k) == IF Len(s) <= k THEN s ELSE SubSeq(s, Len(s) - k + 1, Len(s))

Orderings(n) == {p \in [1..n -> 1..n] : \A i, j \in 1..n : i # j => p[i] # p[j]}

(***************************************************************************)
(* Configuration                                                           *)
(***************************************************************************)
MODELS_CONFIG == {"ResNet50", "EfficientNetB0", "MobileNetV2"}

\* MODELS_CONFIG[name]["size"]
ConfigSize(name) == IF name = "ResNet50" THEN <<224, 224>> ELSE <<256, 256>>

\* the names a caller may pass as model_type: the configured ones, one of no
\* known family, one in another case, one holding two family names
FamilyNames ==
    MODELS_CONFIG \cup {"VGG16", "RESNET101", "MobileNet_EfficientNet"}

\* the characters of a name
Chars(name) ==
    CASE name = "ResNet50" -> <<"R", "e", "s", "N", "e", "t", "5", "0">>
      [] name = "EfficientNetB0" ->
            <<"E", "f", "f", "i", "c", "i", "e", "n", "t", "N", "e", "t", "B", "0">>
      [] name = "MobileNetV2" ->
            <<"M", "o", "b", "i", "l", "e", "N", "e", "t", "V", "2">>
      [] name = "VGG16" -> <<"V", "G", "G", "1", "6">>
      [] name = "RESNET101" -> <<"R", "E", "S", "N", "E", "T", "1", "0", "1">>
      [] name = "MobileNet_EfficientNet" ->
            <<"M", "o", "b", "i", "l", "e", "N", "e", "t", "_",
              "E", "f", "f", "i", "c", "i", "e", "n", "t", "N", "e", "t">>
      [] name = "resnet" -> <<"r", "e", "s", "n", "e", "t">>
      [] name = "efficientnet" ->
            <<"e", "f", "f", "i", "c", "i", "e", "n", "t", "n", "e", "t">>
      [] name = "mobilenet" -> <<"m", "o", "b", "i", "l", "e", "n", "e", "t">>

LowerChar(c) ==
    CASE c = "B" -> "b" [] c = "E" -> "e" [] c = "G" -> "g" [] c = "M" -> "m"
      [] c = "N" -> "n" [] c = "R" -> "r" [] c = "S" -> "s" [] c = "T" -> "t"
      [] c = "V" -> "v" [] OTHER -> c

\* str.lower()
Lower(chars) == [i \in 1..Len(chars) |-> LowerChar(chars[i])]

\* sub in chars
Contains(chars, sub) ==
    \E i \in 1..(Len(chars) - Len(sub) + 1) :
        SubSeq(chars, i, i + Len(sub) - 1) = sub

DefaultClasses == <<"Healthy", "Mosaic", "RedRot", "Rust", "Yellow">>

ApiThreshold == R(50, 100)

DefaultThreshold == R(70, 100)

Thresholds == {ApiThreshold, DefaultThreshold}

ApiAugmentations == 8

TwoClasses == <<"Healthy", "Mosaic">>

ClassLists == {DefaultClasses, TwoClasses}

(***************************************************************************)
(* The environment of a call                                               *)
(***************************************************************************)
Tenths(t) == [i \in 1..Len(t) |-> R(t[i], 10)]

\* Output vectors of a model with five outputs: 0.7 and 0.5 on top (the two
\* thresholds), values between and below them, ties on top and further down.
Outputs5 ==
    { Tenths(<<7, 1, 1, 1, 0>>), Tenths(<<5, 5, 0, 0, 0>>),
      Tenths(<<1, 0, 2, 6, 1>>), Tenths(<<0, 0, 1, 1, 8>>),
      Tenths(<<3, 4, 2, 1, 0>>) }

Outputs2 == { Tenths(<<7, 3>>), Tenths(<<5, 5>>), Tenths(<<4, 6>>) }

ModelOutputs(n) == IF n = 2 THEN Outputs2 ELSE Outputs5

Site(kind, i) == [kind |-> kind, i |-> i]

NoFail == Site("none", 0)

PredictionSites(K) ==
    {Site("load", 0), Site("base", 0)} \cup {Site("aug", i) : i \in 1..K}

Top3Sites == {Site("top3_load", 0), Site("top3_model", 0)}

ExcText(site) ==
    IF site.kind \in {"load", "top3_load"} THEN "InvalidArgumentError"
    ELSE IF site.kind = "pil_load" THEN "UnidentifiedImageError"
    ELSE "ResourceExhaustedError"

\* the external calls of predict: Image.open/convert/resize, then the model
PredictSites == {Site("pil_load", 0), Site("base", 0)}

\* every order np.argsort may return for v: ascending, ties in any order
ArgSorts(v) ==
    {p \in Orderings(Len(v)) :
        \A i \in 1..(Len(v) - 1) : ~RLt(v[p[i + 1]], v[p[i]])}

\* the outputs on the K augmented tensors: every sequence up to the bound,
\* two-block sequences beyond it
AugOutputSeqs(n, K) ==
    IF K <= MaxAugmentations THEN [1..K -> ModelOutputs(n)]
    ELSE {[i \in 1..K |-> IF i <= m THEN a ELSE b] :
            a \in ModelOutputs(n), b \in ModelOutputs(n), m \in {0, K \div 2}}

ImagePaths == {"uploads/a.jpg", "uploads/b.jpg"}

\* the items of a batch: a path and what predict meets on it
BatchItems(n) ==
    {[image_path |-> path,
      w |-> [baseOut |-> b, augOuts |-> <<>>, argsort |-> <<>>, fail |-> f]] :
        path \in ImagePaths, b \in ModelOutputs(n),
        f \in PredictSites \cup {NoFail}}

Batches(n) == UNION {[1..len -> BatchItems(n)] : len \in 0..MaxBatch}

Worlds(n, K, sites) ==
    UNION {{[baseOut |-> b, augOuts |-> a, argsort |-> s, fail |-> f] :
              a \in AugOutputSeqs(n, K), s \in ArgSorts(b),
              f \in sites \cup {NoFail}} : b \in ModelOutputs(n)}

(***************************************************************************)
(* numpy and Python helpers                                                *)
(***************************************************************************)
\* np.argmax: the first index holding the maximum
ArgMax(v) ==
    CHOOSE i \in 1..Len(v) :
        /\ \A j \in 1..Len(v) : ~RLt(v[i], v[j])
        /\ \A j \in 1..(i - 1) : RLt(v[j], v[i])

RECURSIVE ColumnSum(_, _, _)
ColumnSum(predictions_list, i, k) ==
    IF k = 1 THEN predictions_list[1][i]
    ELSE RAdd(ColumnSum(predictions_list, i, k - 1), predictions_list[k][i])

\* np.sum in place of np.mean
Mean_NoDivide(predictions_list) ==
    [i \in 1..Len(predictions_list[1]) |->
        ColumnSum(predictions_list, i, Len(predictions_list))]

\* the mean taken over one vector more than the list holds
Mean_OffByOne(predictions_list) ==
    [i \in 1..Len(predictions_list[1]) |->
        RDivInt(ColumnSum(predictions_list, i, Len(predictions_list)),
                Len(predictions_list) + 1)]

\* np.mean(predictions_list, axis=0)
Mean(predictions_list) ==
    [i \in 1..Len(predictions_list[1]) |->
        RDivInt(ColumnSum(predictions_list, i, Len(predictions_list)),
                Len(predictions_list))]

\* the factor 100 left out
Percent_Unscaled(confidence) == confidence

\* float(confidence * 100)
Percent(confidence) == RMulInt(confidence, 100)

\* the mapping left in insertion order
SortedProbabilities_Unsorted(predictions) ==
    [k \in 1..Len(classes) |-> [key |-> classes[k], value |-> predictions[k]]]

\* {self.classes[i]: float(predictions[i]) for i in range(len(self.classes))}
\* then dict(sorted(items, key=value, reverse=True)): descending by value,
\* equal values keep their insertion order (sorted is stable)
SortedProbabilities(predictions) ==
    LET n == Len(classes)
        \* the number of items placed before item i
        before(i) == Cardinality({j \in 1..n :
                        \/ RLt(predictions[i], predictions[j])
                        \/ REq(predictions[i], predictions[j]) /\ j < i})
        p == [k \in 1..n |-> CHOOSE i \in 1..n : before(i) = k - 1]
    IN [k \in 1..n |-> [key |-> classes[p[k]], value |-> predictions[p[k]]]]

(***************************************************************************)
(* ModelManager: preprocessing and the model call                          *)
(***************************************************************************)
\* the match made on the name as given, without lower()
_set_preprocess_function_CaseSensitive(mt) ==
    IF Contains(Chars(mt), Chars("resnet")) THEN "resnet50.preprocess_input"
    ELSE IF Contains(Chars(mt), Chars("efficientnet"))
         THEN "efficientnet.preprocess_input"
    ELSE IF Contains(Chars(mt), Chars("mobilenet"))
         THEN "mobilenet_v2.preprocess_input"
    ELSE "generic_rescale"

_set_preprocess_function(mt) ==
    IF Contains(Lower(Chars(mt)), Chars("resnet")) THEN "resnet50.preprocess_input"
    ELSE IF Contains(Lower(Chars(mt)), Chars("efficientnet"))
         THEN "efficientnet.preprocess_input"
    ELSE IF Contains(Lower(Chars(mt)), Chars("mobilenet"))
         THEN "mobilenet_v2.preprocess_input"
    ELSE "generic_rescale"

(***************************************************************************)
(* ModelManager: construction                                              *)
(***************************************************************************)
\* what may lie at model_path
ModelArtifacts == {"ok", "missing", "corrupt"}

\* what may lie at classes_path: nothing, a file that cannot be opened, text
\* that is not JSON, or a JSON document
ClassFiles ==
    { [kind |-> "missing", type |-> "none", items |-> <<>>],
      [kind |-> "unreadable", type |-> "none", items |-> <<>>],
      [kind |-> "not_json", type |-> "none", items |-> <<>>],
      [kind |-> "json", type |-> "int", items |-> <<>>],
      [kind |-> "json", type |-> "list_of_int", items |-> <<>>],
      [kind |-> "json", type |-> "dict", items |-> <<"Healthy", "Mosaic">>],
      [kind |-> "json", type |-> "str", items |-> <<"R", "u", "s", "t">>],
      [kind |-> "json", type |-> "list", items |-> TwoClasses],
      [kind |-> "json", type |-> "list", items |-> DefaultClasses] }

\* lines 92-105: returns self.model, or re-raises what the load raised
\* the failure logged and swallowed: self.model stays None
_load_model_Swallow(model_path) ==
    IF model_path \in {"missing", "corrupt"} THEN [tag |-> "model", state |-> "None"]
    ELSE [tag |-> "model", state |-> "loaded"]

_load_model(model_path) ==
    IF model_path = "missing" THEN Raise("FileNotFoundError")
    ELSE IF model_path = "corrupt" THEN Raise("ValueError")
    ELSE [tag |-> "model", state |-> "loaded"]

\* ', '.join(self.classes) in the log call of line 114: raises unless it
\* iterates over strings (a list of str, the keys of a dict, a str)
JoinRaises(file) == file.type \in {"int", "list_of_int"}

\* lines 109-123: returns self.classes as [type, items]
_load_classes(classes_path) ==
    IF classes_path.kind # "missing"
    THEN IF classes_path.kind \in {"unreadable", "not_json"}
         THEN [type |-> "list", items |-> DefaultClasses]
         ELSE IF JoinRaises(classes_path)
              THEN [type |-> "list", items |-> DefaultClasses]
              ELSE [type |-> classes_path.type, items |-> classes_path.items]
    ELSE [type |-> "list", items |-> DefaultClasses]

\* __init__: the new instance, or the exception _load_model re-raised
ModelManager(model_path, classes_path, size, mt) ==
    LET fn == _set_preprocess_function(mt)
        m == _load_model(model_path)
    IN IF IsRaise(m) THEN m
       ELSE LET c == _load_classes(classes_path)
            IN [tag |-> "ModelManager",
                model_type |-> mt,
                img_size |-> size,
                preprocess_fn |-> fn,
                model |-> m.state,
                classes_type |-> c.type,
                classes |-> c.items]

\* returns the tensor, or None when reading, decoding or resizing raises
load_and_preprocess_image_tf(w, site) ==
    IF w.fail = site THEN None
    ELSE [variant |-> 0,
          ops |-> <<"read_file", "decode_jpeg", "resize", preprocess_fn,
                    "expand_dims">>]

\* PIL preprocessing, scaled to [0,1]; re-raises what Image.open, convert or
\* resize raise
preprocess_image(w) ==
    IF w.fail = Site("pil_load", 0) THEN Raise(ExcText(w.fail))
    ELSE [variant |-> 0,
          ops |-> <<"Image.open", "convert_RGB", "resize", "div_255",
                    "expand_dims">>]

\* lines 332-349: the i-th randomly augmented variant of img_original
Augment(img_original, i) ==
    [variant |-> i,
     ops |-> img_original.ops \o
             <<"squeeze", "rot90", "random_flips", "adjust_brightness",
               "adjust_contrast", "adjust_saturation", "clip_by_value",
               "expand_dims">>]

\* self.model.predict(img, verbose=0)[0]
model_predict(img, w, site) ==
    IF w.fail = site THEN Raise(ExcText(site))
    ELSE [tag |-> "ok",
          out |-> IF img.variant = 0 THEN w.baseOut
                  ELSE w.augOuts[img.variant]]

Inference(img, site, out) == [site |-> site, ops |-> img.ops, out |-> out]

(***************************************************************************)
(* ModelManager: prediction operations.  Each returns [ret, log]: the      *)
(* Python return value and the model calls it completed.                   *)
(***************************************************************************)
\* the basic prediction: PIL preprocessing, confidence on the 0-1 scale, and
\* every exception re-raised
predict(w) ==
    LET img_array == preprocess_image(w)
    IN IF IsRaise(img_array) THEN [ret |-> img_array, log |-> <<>>]
       ELSE LET r == model_predict(img_array, w, Site("base", 0))
            IN IF IsRaise(r) THEN [ret |-> r, log |-> <<>>]
               ELSE LET predictions == r.out
                        predicted_class_idx == ArgMax(predictions)
                        confidence == predictions[predicted_class_idx]
                    IN [ret |-> [class |-> classes[predicted_class_idx],
                                 confidence |-> confidence,
                                 probabilities |-> SortedProbabilities(predictions)],
                        log |-> <<Inference(img_array, Site("base", 0), predictions)>>]

\* one iteration of the loop of predict_batch: the entry appended for the item
BatchEntry(item) ==
    LET r == predict(item.w).ret
    IN IF IsRaise(r)
       THEN [image_path |-> item.image_path, error |-> r.exc]
       ELSE [class |-> r.class, confidence |-> r.confidence,
             probabilities |-> r.probabilities, image_path |-> item.image_path]

RECURSIVE BatchLog(_)
BatchLog(image_paths) ==
    IF image_paths = <<>> THEN <<>>
    ELSE BatchLog(SubSeq(image_paths, 1, Len(image_paths) - 1))
            \o predict(image_paths[Len(image_paths)].w).log

\* the loop ended by the first item that fails
predict_batch_AbortOnFailure(image_paths) ==
    LET failed == {k \in 1..Len(image_paths) : IsRaise(predict(image_paths[k].w).ret)}
        last == IF failed = {} THEN Len(image_paths)
                ELSE CHOOSE k \in failed : \A j \in failed : k <= j
    IN [ret |-> List([k \in 1..last |-> BatchEntry(image_paths[k])]),
        log |-> BatchLog(SubSeq(image_paths, 1, last))]

predict_batch(image_paths) ==
    [ret |-> List([k \in 1..Len(image_paths) |-> BatchEntry(image_paths[k])]),
     log |-> BatchLog(image_paths)]

get_top_3_predictions(w) ==
    LET img == load_and_preprocess_image_tf(w, Site("top3_load", 0))
    IN IF img = None THEN [ret |-> None, log |-> <<>>]
       ELSE LET r == model_predict(img, w, Site("top3_model", 0))
            IN IF IsRaise(r) THEN [ret |-> None, log |-> <<>>]
               ELSE LET predictions == r.out
                        top_3_idx == Reverse(LastN(w.argsort, 3))
                    IN [ret |-> List([k \in 1..Len(top_3_idx) |->
                                   [class |-> classes[top_3_idx[k]],
                                    confidence |-> Percent(predictions[top_3_idx[k]]),
                                    probability |-> predictions[top_3_idx[k]]]]),
                        log |-> <<Inference(img, Site("top3_model", 0), predictions)>>]

predict_single_direct(w) ==
    LET img == load_and_preprocess_image_tf(w, Site("load", 0))
    IN IF img = None THEN [ret |-> None, log |-> <<>>]
       ELSE LET r == model_predict(img, w, Site("base", 0))
            IN IF IsRaise(r) THEN [ret |-> None, log |-> <<>>]
               ELSE LET predictions == r.out
                        class_idx == ArgMax(predictions)
                        confidence == predictions[class_idx]
                    IN [ret |-> [class |-> classes[class_idx],
                                 confidence |-> Percent(confidence),
                                 probability |-> confidence,
                                 probabilities |-> SortedProbabilities(predictions)],
                        log |-> <<Inference(img, Site("base", 0), predictions)>>]

\* range(num_augmentations)
AugmentationRange(num_augmentations) == 1..num_augmentations

predict_with_tta(w, num_augmentations) ==
    LET img_original == load_and_preprocess_image_tf(w, Site("load", 0))
    IN IF img_original = None THEN [ret |-> None, log |-> <<>>]
       ELSE
       LET K == Cardinality(AugmentationRange(num_augmentations))
           \* the model calls in program order: the original, then the variants
           imgs == [j \in 1..(K + 1) |->
                      IF j = 1 THEN img_original ELSE Augment(img_original, j - 1)]
           sites == [j \in 1..(K + 1) |->
                      IF j = 1 THEN Site("base", 0) ELSE Site("aug", j - 1)]
           rs == [j \in 1..(K + 1) |-> model_predict(imgs[j], w, sites[j])]
           raised == {j \in 1..(K + 1) : IsRaise(rs[j])}
           done == IF raised = {} THEN K + 1
                   ELSE (CHOOSE j \in raised : \A k \in raised : j <= k) - 1
           log == [j \in 1..done |-> Inference(imgs[j], sites[j], rs[j].out)]
       IN IF raised # {} THEN [ret |-> None, log |-> log]
          ELSE LET predictions_list == [j \in 1..(K + 1) |-> rs[j].out]
                   avg_pred == Mean(predictions_list)
                   class_idx == ArgMax(avg_pred)
                   confidence == avg_pred[class_idx]
               IN [ret |-> [class |-> classes[class_idx],
                            confidence |-> Percent(confidence),
                            probability |-> confidence,
                            probabilities |-> SortedProbabilities(avg_pred),
                            num_augmentations |-> num_augmentations],
                   log |-> log]

Method(use_tta, num_augmentations) ==
    IF use_tta THEN [text |-> "TTA ({num_augmentations} augmentaciones)",
                     args |-> <<num_augmentations>>]
    ELSE [text |-> "Prediccion directa (sin TTA)", args |-> <<>>]

\* the error mapping without its message
PredictionFailed_NoMessage ==
    [status |-> "error",
     confidence |-> R(0, 1),
     probability |-> R(0, 1)]

\* lines 401-407: the prediction returned None
PredictionFailed ==
    [status |-> "error",
     message |-> [text |-> "Error en la prediccion", args |-> <<>>],
     confidence |-> R(0, 1),
     probability |-> R(0, 1)]

\* lines 437-444: an exception reached improved_predict's own handler
ProcessingError(e) ==
    [status |-> "error",
     message |-> [text |-> "Error al procesar la imagen: {e}", args |-> <<e>>],
     confidence |-> R(0, 1),
     probability |-> R(0, 1)]

\* <= in place of <
BelowThreshold_OrEqual(probability, threshold) == ~RLt(threshold, probability)

\* line 413: probability < threshold
BelowThreshold(probability, threshold) == RLt(probability, threshold)

\* a low-confidence result that withholds the label and the distribution
WarningResult_Suppressed(res, probability, top_3, method, threshold) ==
    [status |-> "warning",
     class |-> "Unknown",
     confidence |-> res.confidence,
     probability |-> probability,
     probabilities |-> <<>>,
     method |-> method,
     message |-> [text |-> "Confianza baja ({confidence}%). Se requiere minimo {threshold*100}%.",
                  args |-> <<res.confidence, RMulInt(threshold, 100)>>],
     top_3 |-> top_3]

\* lines 414-424
WarningResult(res, probability, top_3, method, threshold) ==
    [status |-> "warning",
     class |-> res.class,
     confidence |-> res.confidence,
     probability |-> probability,
     probabilities |-> res.probabilities,
     method |-> method,
     message |-> [text |-> "Confianza baja ({confidence}%). Se requiere minimo {threshold*100}%.",
                  args |-> <<res.confidence, RMulInt(threshold, 100)>>],
     top_3 |-> top_3]

\* lines 426-435
SuccessResult(res, probability, top_3, method) ==
    [status |-> "success",
     class |-> res.class,
     confidence |-> res.confidence,
     probability |-> probability,
     probabilities |-> res.probabilities,
     method |-> method,
     message |-> [text |-> "Detectado: {class} ({confidence}%)",
                  args |-> <<res.class, res.confidence>>],
     top_3 |-> top_3]

improved_predict(w, use_tta, threshold, num_augmentations) ==
    LET method == Method(use_tta, num_augmentations)
        p == IF use_tta THEN predict_with_tta(w, num_augmentations)
             ELSE predict_single_direct(w)
        res == p.ret
    IN IF IsRaise(res) THEN [ret |-> ProcessingError(res.exc), log |-> p.log]
       ELSE IF res = None THEN [ret |-> PredictionFailed, log |-> p.log]
       ELSE LET probability == res.probability
                t == get_top_3_predictions(w)
                top_3 == t.ret
            IN [ret |-> IF BelowThreshold(probability, threshold)
                        THEN WarningResult(res, probability, top_3, method, threshold)
                        ELSE SuccessResult(res, probability, top_3, method),
                log |-> p.log \o t.log]

(***************************************************************************)
(* app.py: the model cache                                                 *)
(***************************************************************************)
\* the names a request may carry: the configured ones and an unknown one
RequestedNames == MODELS_CONFIG \cup {"VGG16"}

\* MODELS_CONFIG[name]["classes"]: a labels file with the five labels
ConfigClasses(name) == [kind |-> "json", type |-> "list", items |-> DefaultClasses]

\* the name used as given
ResolveName_AsGiven(model_name) == model_name

\* lines 95-97: an unknown name becomes the default model
ResolveName(model_name) ==
    IF model_name \notin MODELS_CONFIG THEN "ResNet50" ELSE model_name

\* a lookup that never hits
Cached_Never(cache, name) == FALSE

\* line 100: model_name in loaded_models
Cached(cache, name) == name \in DOMAIN cache

\* setdefault: an entry already present is kept
CachePut_KeepFirst(cache, name, instance) ==
    [k \in DOMAIN cache \cup {name} |->
        IF k \in DOMAIN cache THEN cache[k] ELSE instance]

\* line 116: loaded_models[model_name] = model_manager
CachePut(cache, name, instance) ==
    [k \in DOMAIN cache \cup {name} |-> IF k = name THEN instance ELSE cache[k]]

\* lines 106-114: the instance, tagged with the identity id, or the exception
\* of the constructor (a KeyError when the name has no configuration)
LoadModel(name, model_path, id) ==
    IF name \notin MODELS_CONFIG THEN Raise("KeyError")
    ELSE LET obj == ModelManager(model_path, ConfigClasses(name), ConfigSize(name), name)
         IN IF IsRaise(obj) THEN obj ELSE [tag |-> "instance", id |-> id, manager |-> obj]

\* the entry a constructor call leaves in constructions
Construction(name, id, obj) ==
    [name |-> name, id |-> id, raised |-> IsRaise(obj)]

\* the whole function, run without interruption: the value returned, the cache
\* afterwards and the constructor calls made
get_model_manager(cache, model_name, model_path, id) ==
    LET name == ResolveName(model_name)
    IN IF Cached(cache, name)
       THEN [ret |-> cache[name], cache |-> cache, constructed |-> <<>>]
       ELSE LET obj == LoadModel(name, model_path, id)
                made == IF name \in MODELS_CONFIG
                        THEN <<Construction(name, id, obj)>> ELSE <<>>
            IN IF IsRaise(obj)
               THEN [ret |-> None, cache |-> cache, constructed |-> made]
               ELSE [ret |-> obj, cache |-> CachePut(cache, name, obj),
                     constructed |-> made]

(***************************************************************************)
(* The state machine: one ModelManager instance and its callers.  A call   *)
(* runs to completion in one step and leaves its arguments in call, its    *)
(* return value in result and the model calls it completed in inferences;  *)
(* Return hands the result to the caller.                                  *)
(***************************************************************************)
NoWorld == [baseOut |-> <<>>, augOuts |-> <<>>, argsort |-> <<>>, fail |-> NoFail]

Idle ==
    [op |-> "idle", caller |-> "none", use_tta |-> FALSE,
     threshold |-> DefaultThreshold, num_augmentations |-> 0, w |-> NoWorld]

Call(op, caller, use_tta, threshold, num_augmentations, w) ==
    [op |-> op, caller |-> caller, use_tta |-> use_tta, threshold |-> threshold,
     num_augmentations |-> num_augmentations, w |-> w]

\* no request yet: an empty cache and an empty upload folder
AppInit ==
    /\ loaded_models = <<>>
    /\ constructions = <<>>
    /\ requests = <<>>
    /\ clock = 0
    /\ uploads = <<>>

\* an instance that get_model_manager or the comparison tool constructed
Init ==
    /\ model_type \in MODELS_CONFIG
    /\ preprocess_fn = _set_preprocess_function(model_type)
    /\ classes \in ClassLists
    /\ classes_type = "list"
    /\ model = "loaded"
    /\ img_size = ConfigSize(model_type)
    /\ AppInit
    /\ call = Idle
    /\ result = None
    /\ inferences = <<>>

\* a failed operation puts the default labels back
Invoke_ResetsLabelsOnFailure(c, r) ==
    /\ call' = c
    /\ result' = r.ret
    /\ inferences' = r.log
    /\ classes' = IF r.ret = None THEN DefaultClasses ELSE classes
    /\ UNCHANGED <<classes_type, model, img_size, model_type, preprocess_fn>>
    /\ UNCHANGED appVars

\* a call of a prediction operation: none of them assigns an attribute of self
Invoke(c, r) ==
    /\ call' = c
    /\ result' = r.ret
    /\ inferences' = r.log
    /\ UNCHANGED instanceVars
    /\ UNCHANGED appVars

\* any caller of the public method
ImprovedPredict ==
    /\ call.op = "idle"
    /\ \E use_tta \in BOOLEAN, threshold \in Thresholds, K \in 0..MaxAugmentations :
        \E w \in Worlds(Len(classes), IF use_tta THEN K ELSE 0,
                        PredictionSites(IF use_tta THEN K ELSE 0) \cup Top3Sites) :
            Invoke(Call("improved_predict", "any", use_tta, threshold, K, w),
                   improved_predict(w, use_tta, threshold, K))

\* app.py /api/predict: threshold=0.50, num_augmentations=8 if use_tta else 0
ApiPredict ==
    /\ call.op = "idle"
    /\ \E use_tta \in BOOLEAN :
        LET K == IF use_tta THEN ApiAugmentations ELSE 0
        IN \E w \in Worlds(Len(classes), K, PredictionSites(K) \cup Top3Sites) :
            Invoke(Call("improved_predict", "api", use_tta, ApiThreshold, K, w),
                   improved_predict(w, use_tta, ApiThreshold, K))

\* tests/test_comparison_models.py: improved_predict(image_path, use_tta=True,
\* num_augmentations=8) with the default threshold, or predict_single_direct
ComparisonTool ==
    /\ call.op = "idle"
    /\ \E use_tta \in BOOLEAN :
        IF use_tta
        THEN \E w \in Worlds(Len(classes), ApiAugmentations,
                             PredictionSites(ApiAugmentations) \cup Top3Sites) :
                Invoke(Call("improved_predict", "comparison", TRUE,
                            DefaultThreshold, ApiAugmentations, w),
                       improved_predict(w, TRUE, DefaultThreshold, ApiAugmentations))
        ELSE \E w \in Worlds(Len(classes), 0, PredictionSites(0)) :
                Invoke(Call("predict_single_direct", "comparison", FALSE,
                            DefaultThreshold, 0, w),
                       predict_single_direct(w))

PredictWithTTA ==
    /\ call.op = "idle"
    /\ \E K \in 0..MaxAugmentations :
        \E w \in Worlds(Len(classes), K, PredictionSites(K)) :
            Invoke(Call("predict_with_tta", "any", TRUE, DefaultThreshold, K, w),
                   predict_with_tta(w, K))

PredictSingleDirect ==
    /\ call.op = "idle"
    /\ \E w \in Worlds(Len(classes), 0, PredictionSites(0)) :
        Invoke(Call("predict_single_direct", "any", FALSE, DefaultThreshold, 0, w),
               predict_single_direct(w))

Predict ==
    /\ call.op = "idle"
    /\ \E w \in Worlds(Len(classes), 0, PredictSites) :
        Invoke(Call("predict", "any", FALSE, DefaultThreshold, 0, w),
               predict(w))

GetTop3Predictions ==
    /\ call.op = "idle"
    /\ \E w \in Worlds(Len(classes), 0, Top3Sites) :
        Invoke(Call("get_top_3_predictions", "any", FALSE, DefaultThreshold, 0, w),
               get_top_3_predictions(w))

PredictBatch ==
    /\ call.op = "idle"
    /\ \E image_paths \in Batches(Len(classes)) :
        Invoke(Call("predict_batch", "any", FALSE, DefaultThreshold, 0, image_paths),
               predict_batch(image_paths))

Return ==
    /\ call.op # "idle"
    /\ call' = Idle
    /\ result' = None
    /\ inferences' = <<>>
    /\ UNCHANGED instanceVars
    /\ UNCHANGED appVars

Next ==
    \/ ImprovedPredict
    \/ ApiPredict
    \/ ComparisonTool
    \/ PredictWithTTA
    \/ PredictSingleDirect
    \/ Predict
    \/ GetTop3Predictions
    \/ Return

Spec == Init /\ [][Next]_vars

\* an instance constructed with any family name, default img_size and a
\* two-label file, and then used by the same callers
InitFamily ==
    /\ \E mt \in FamilyNames :
        LET obj == ModelManager("ok",
                                [kind |-> "json", type |-> "list", items |-> TwoClasses],
                                <<256, 256>>, mt)
        IN /\ model_type = obj.model_type
           /\ preprocess_fn = obj.preprocess_fn
           /\ classes = obj.classes
           /\ classes_type = obj.classes_type
           /\ model = obj.model
           /\ img_size = obj.img_size
    /\ AppInit
    /\ call = Idle
    /\ result = None
    /\ inferences = <<>>

SpecFamily == InitFamily /\ [][Next]_vars

\* every prediction operation, predict_batch included, on one instance
NextInstance ==
    \/ Next
    \/ PredictBatch

SpecInstance == InitFamily /\ [][NextInstance]_vars

\* the constructor alone, called with any name and any files
InitConstruct ==
    /\ model_type = ""
    /\ preprocess_fn = ""
    /\ classes = <<>>
    /\ classes_type = "list"
    /\ model = "None"
    /\ img_size = <<>>
    /\ AppInit
    /\ call = Idle
    /\ result = None
    /\ inferences = <<>>

Construct ==
    /\ call.op = "idle"
    /\ model = "None"
    /\ \E mt \in FamilyNames, model_path \in ModelArtifacts, classes_path \in ClassFiles :
        LET obj == ModelManager(model_path, classes_path, ConfigSize(mt), mt)
        IN /\ call' = Call("ModelManager", "any", FALSE, DefaultThreshold, 0,
                           [model_path |-> model_path, classes_path |-> classes_path,
                            img_size |-> ConfigSize(mt), model_type |-> mt])
           /\ result' = obj
           /\ inferences' = <<>>
           /\ IF IsRaise(obj) THEN UNCHANGED instanceVars
              ELSE /\ model_type' = obj.model_type
                   /\ preprocess_fn' = obj.preprocess_fn
                   /\ classes' = obj.classes
                   /\ classes_type' = obj.classes_type
                   /\ model' = obj.model
                   /\ img_size' = obj.img_size
           /\ UNCHANGED appVars

NextConstruct ==
    \/ Construct
    \/ Return

SpecConstruct == InitConstruct /\ [][NextConstruct]_vars

\* get_model_manager called by one caller at a time.  The instance variables
\* are not used: the instances live in the cache.
InitCache ==
    /\ model_type = ""
    /\ preprocess_fn = ""
    /\ classes = <<>>
    /\ classes_type = "list"
    /\ model = "None"
    /\ img_size = <<>>
    /\ AppInit
    /\ call = Idle
    /\ result = None
    /\ inferences = <<>>

GetCall(model_name, model_path) ==
    /\ call.op = "idle"
    /\ \/ Len(constructions) < MaxConstructions
       \/ Cached(loaded_models, ResolveName(model_name))
    /\ LET g == get_model_manager(loaded_models, model_name, model_path,
                                  Len(constructions) + 1)
       IN /\ call' = Call("get_model_manager", "any", FALSE, DefaultThreshold, 0,
                          [model_name |-> model_name, model_path |-> model_path])
          /\ result' = g.ret
          /\ loaded_models' = g.cache
          /\ constructions' = constructions \o g.constructed
    /\ inferences' = <<>>
    /\ UNCHANGED <<requests, clock, uploads>>
    /\ UNCHANGED instanceVars

\* line 128, run when app.py is imported: the first call of all
Startup ==
    /\ constructions = <<>>
    /\ \E model_path \in ModelArtifacts : GetCall("ResNet50", model_path)

GetModelManager ==
    /\ constructions # <<>>
    /\ \E model_name \in RequestedNames, model_path \in ModelArtifacts :
        GetCall(model_name, model_path)

NextCache ==
    \/ Startup
    \/ GetModelManager
    \/ Return

SpecCache == InitCache /\ [][NextCache]_vars

(***************************************************************************)
(* app.py: /api/predict served by concurrent threads                       *)
(***************************************************************************)
\* the filenames of the uploads
UploadNames == {"my leaf.jpg", "my_leaf.jpg", "notes.txt"}

ALLOWED_EXTENSIONS == {"png", "jpg", "jpeg", "gif", "bmp", "webp"}

\* filename.rsplit(".", 1)[1].lower()
Extension(filename) ==
    CASE filename = "my leaf.jpg" -> "jpg"
      [] filename = "my_leaf.jpg" -> "jpg"
      [] filename = "notes.txt" -> "txt"

allowed_file(filename) == Extension(filename) \in ALLOWED_EXTENSIONS

\* werkzeug's secure_filename: whitespace becomes an underscore
secure_filename(filename) ==
    CASE filename = "my leaf.jpg" -> "my_leaf.jpg"
      [] OTHER -> filename

\* strftime("%Y%m%d_%H%M%S") of the clock, which counts whole seconds, joined
\* to the sanitized name; the timestamp has a fixed width, so the pair stands
\* for the joined string
SavedName(now, filename) == <<now, secure_filename(filename)>>

\* file.save(filepath): the file at the path now holds this upload
SaveFile(files, filepath, content) ==
    [f \in DOMAIN files \cup {filepath} |->
        IF f = filepath THEN content ELSE files[f]]

NoFile == <<>>

\* the model names the requests carry: the default, another configured one
\* and an unconfigured one
SelectedModels == {"ResNet50", "EfficientNetB0", "VGG16"}

\* the request after lines 175-189: rejected, or with its upload saved
Request(upload, selected_model, now) ==
    [pc |-> IF allowed_file(upload) THEN "lookup" ELSE "done",
     selected_model |-> selected_model,
     filename |-> IF allowed_file(upload) THEN SavedName(now, upload) ELSE NoFile,
     model_manager |-> None, current_model |-> None,
     wrote |-> 0, read |-> 0]

Writes == Cardinality({i \in DOMAIN requests : requests[i].wrote > 0})

\* after the import of app.py: line 128 has run
InitApp ==
    /\ model_type = ""
    /\ preprocess_fn = ""
    /\ classes = <<>>
    /\ classes_type = "list"
    /\ model = "None"
    /\ img_size = <<>>
    /\ call = Idle
    /\ result = None
    /\ inferences = <<>>
    /\ \E model_path \in ModelArtifacts :
        LET g == get_model_manager(<<>>, "ResNet50", model_path, 1)
        IN /\ loaded_models = g.cache
           /\ constructions = g.constructed
    /\ requests = <<>>
    /\ clock = 0
    /\ uploads = <<>>

\* lines 175-189: a POST /api/predict is validated and its upload saved under
\* the timestamped name
SaveUpload ==
    /\ Len(requests) < MaxRequests
    /\ \E upload \in UploadNames, selected_model \in SelectedModels :
        LET r == Request(upload, selected_model, clock)
        IN /\ requests' = Append(requests, r)
           /\ uploads' = IF allowed_file(upload)
                         THEN SaveFile(uploads, r.filename, Len(requests) + 1)
                         ELSE uploads
    /\ UNCHANGED <<loaded_models, constructions, clock>>
    /\ UNCHANGED <<instanceVars, callVars>>

\* lines 95-102 of get_model_manager
Lookup(i) ==
    /\ requests[i].pc = "lookup"
    /\ LET name == ResolveName(requests[i].selected_model)
       IN IF Cached(loaded_models, name)
          THEN requests' = [requests EXCEPT ![i].pc = "predict",
                                            ![i].current_model = loaded_models[name]]
          ELSE requests' = [requests EXCEPT ![i].pc = "load"]
    /\ UNCHANGED <<loaded_models, constructions, clock, uploads>>
    /\ UNCHANGED <<instanceVars, callVars>>

\* lines 105-114 and 121-123: the constructor call
Load(i) ==
    /\ requests[i].pc = "load"
    /\ \E model_path \in ModelArtifacts :
        LET name == ResolveName(requests[i].selected_model)
            id == Len(constructions) + 1
            obj == LoadModel(name, model_path, id)
        IN /\ constructions' =
                Append(constructions, Construction(name, id, obj))
           /\ IF IsRaise(obj)
              THEN requests' = [requests EXCEPT ![i].pc = "predict"]
              ELSE requests' = [requests EXCEPT ![i].pc = "store",
                                                ![i].model_manager = obj]
    /\ UNCHANGED <<loaded_models, clock, uploads>>
    /\ UNCHANGED <<instanceVars, callVars>>

\* lines 116-119: the cache written and the instance returned
Store(i) ==
    /\ requests[i].pc = "store"
    /\ loaded_models' = CachePut(loaded_models,
                                 ResolveName(requests[i].selected_model),
                                 requests[i].model_manager)
    /\ requests' = [requests EXCEPT ![i].pc = "predict",
                                    ![i].current_model = requests[i].model_manager,
                                    ![i].wrote = Writes + 1]
    /\ UNCHANGED <<constructions, clock, uploads>>
    /\ UNCHANGED <<instanceVars, callVars>>

\* lines 200-248: improved_predict opens the file at filepath, or the
\* simulated answer is given when there is no model
Analyse(i) ==
    /\ requests[i].pc = "predict"
    /\ IF requests[i].current_model # None
       THEN requests' = [requests EXCEPT ![i].pc = "done",
                                         ![i].read = uploads[requests[i].filename]]
       ELSE requests' = [requests EXCEPT ![i].pc = "done"]
    /\ UNCHANGED <<loaded_models, constructions, clock, uploads>>
    /\ UNCHANGED <<instanceVars, callVars>>

\* a second passes; the clock is read by SaveUpload only, so it stops with the
\* last request
Tick ==
    /\ clock < MaxClock
    /\ Len(requests) < MaxRequests
    /\ clock' = clock + 1
    /\ UNCHANGED <<loaded_models, constructions, requests, uploads>>
    /\ UNCHANGED <<instanceVars, callVars>>

NextApp ==
    \/ SaveUpload
    \/ \E i \in DOMAIN requests : Lookup(i)
    \/ \E i \in DOMAIN requests : Load(i)
    \/ \E i \in DOMAIN requests : Store(i)
    \/ \E i \in DOMAIN requests : Analyse(i)
    \/ Tick

SpecApp == InitApp /\ [][NextApp]_vars

(***************************************************************************)
(* app.py: /api/predict, one request at a time, with its response          *)
(***************************************************************************)
\* line 181
BadRequest == [code |-> 400, success |-> FALSE, error |-> "Formato no permitido"]

\* lines 212-227
PredictionResponse(res, filename, timestamp, use_tta, selected_model) ==
    [code |-> 200,
     success |-> TRUE,
     filename |-> filename,
     timestamp |-> timestamp,
     prediction |-> [class |-> res.class,
                     confidence |-> res.confidence,
                     probability |-> res.probability,
                     method |-> res.method,
                     top_3 |-> res.top_3,
                     all_probabilities |-> res.probabilities],
     status |-> res.status,
     tta_used |-> use_tta,
     model_used |-> selected_model]

\* line 229
ErrorResponse(res) == [code |-> 500, success |-> FALSE, error |-> res.message]

\* lines 236-248: the simulated answer
Simulation(filename) ==
    [code |-> 200,
     success |-> TRUE,
     filename |-> filename,
     prediction |-> [class |-> "Healthy", confidence |-> R(855, 10),
                     probability |-> R(855, 1000)],
     status |-> "success",
     message |-> "Simulacion realizada (modelo no cargado)"]

\* lines 211-229: the response to what improved_predict returned
Respond(res, filename, timestamp, use_tta, selected_model) ==
    IF res # None /\ res.status \in {"success", "warning"}
    THEN PredictionResponse(res, filename, timestamp, use_tta, selected_model)
    ELSE ErrorResponse(res)

\* lines 175-197: validation, the upload saved, and the model fetched; the
\* instance variables become those of current_model
ApiGetModel ==
    /\ call.op = "idle"
    /\ \E upload \in UploadNames, selected_model \in SelectedModels,
          model_path \in ModelArtifacts :
        /\ \/ Len(constructions) < MaxLoads
           \/ Cached(loaded_models, ResolveName(selected_model))
        /\ IF ~allowed_file(upload)
           THEN /\ call' = Call("api_predict", "api", FALSE, ApiThreshold, 0,
                                [selected_model |-> selected_model,
                                 filename |-> NoFile, world |-> NoWorld,
                                 core |-> None])
                /\ result' = BadRequest
                /\ UNCHANGED <<loaded_models, constructions, uploads>>
                /\ UNCHANGED instanceVars
           ELSE LET filename == SavedName(clock, upload)
                    g == get_model_manager(loaded_models, selected_model,
                                           model_path, Len(constructions) + 1)
                IN /\ uploads' = SaveFile(uploads, filename, upload)
                   /\ loaded_models' = g.cache
                   /\ constructions' = constructions \o g.constructed
                   /\ call' = Call("api_get_model", "api", FALSE, ApiThreshold, 0,
                                   [selected_model |-> selected_model,
                                    filename |-> filename])
                   /\ result' = g.ret
                   /\ IF g.ret = None
                      THEN UNCHANGED instanceVars
                      ELSE /\ model_type' = g.ret.manager.model_type
                           /\ preprocess_fn' = g.ret.manager.preprocess_fn
                           /\ classes' = g.ret.manager.classes
                           /\ classes_type' = g.ret.manager.classes_type
                           /\ model' = g.ret.manager.model
                           /\ img_size' = g.ret.manager.img_size
    /\ inferences' = <<>>
    /\ UNCHANGED <<requests, clock>>

\* lines 193-194 and 200-248: improved_predict on current_model and the
\* response, or the simulated answer when current_model is None
ApiRespond ==
    /\ call.op = "api_get_model"
    /\ IF result # None
       THEN \E use_tta \in BOOLEAN :
            LET K == IF use_tta THEN ApiAugmentations ELSE 0
            IN \E w \in Worlds(Len(classes), K, PredictionSites(K) \cup Top3Sites) :
                LET r == improved_predict(w, use_tta, ApiThreshold, K)
                IN /\ call' = Call("api_predict", "api", use_tta, ApiThreshold, K,
                                   [selected_model |-> call.w.selected_model,
                                    filename |-> call.w.filename,
                                    world |-> w, core |-> r.ret])
                   /\ result' = Respond(r.ret, call.w.filename, call.w.filename[1],
                                        use_tta, call.w.selected_model)
                   /\ inferences' = r.log
       ELSE /\ call' = Call("api_predict", "api", FALSE, ApiThreshold, 0,
                            [selected_model |-> call.w.selected_model,
                             filename |-> call.w.filename,
                             world |-> NoWorld, core |-> None])
            /\ result' = Simulation(call.w.filename)
            /\ inferences' = <<>>
    /\ UNCHANGED instanceVars
    /\ UNCHANGED appVars

\* the response is sent: the handler's locals are gone
ApiReturn ==
    /\ call.op = "api_predict"
    /\ call' = Idle
    /\ result' = None
    /\ inferences' = <<>>
    /\ model_type' = ""
    /\ preprocess_fn' = ""
    /\ classes' = <<>>
    /\ classes_type' = "list"
    /\ model' = "None"
    /\ img_size' = <<>>
    /\ UNCHANGED appVars

NextEndpoint ==
    \/ ApiGetModel
    \/ ApiRespond
    \/ ApiReturn

SpecEndpoint == InitApp /\ [][NextEndpoint]_vars

\* predict_batch alone
NextBatch ==
    \/ PredictBatch
    \/ Return

SpecBatch == Init /\ [][NextBatch]_vars

(***************************************************************************)
(* Properties                                                              *)
(***************************************************************************)
Improved == call.op = "improved_predict"

Answered == Improved /\ result.status \in {"success", "warning"}

\* C1: when the underlying prediction of improved_predict returns a result,
\* the status is "warning" exactly when the probability is strictly below the
\* threshold and "success" otherwise; /api/predict passes 0.50 and the
\* comparison tool leaves the default 0.70.
C1_StatusByThreshold ==
    Improved =>
        /\ call.w.fail \notin PredictionSites(call.num_augmentations) =>
              /\ "probability" \in DOMAIN result
              /\ result.status = IF result.probability.n * call.threshold.d
                                      < call.threshold.n * result.probability.d
                                   THEN "warning" ELSE "success"
        /\ call.caller = "api" => REq(call.threshold, R(1, 2))
        /\ call.caller = "comparison" => REq(call.threshold, R(7, 10))

C1_Witness ==
    /\ Improved
    /\ call.caller = "api"
    /\ result.status = "success"
    /\ REq(result.probability, call.threshold)

\* C2: improved_predict returns a mapping with a status among success, warning
\* and error and a message, whatever the loader and the model do; class is
\* present whenever the status is success or warning.
C2_WellFormedResult ==
    Improved =>
        /\ ~IsRaise(result)
        /\ result # None
        /\ {"status", "message"} \subseteq DOMAIN result
        /\ result.status \in {"success", "warning", "error"}
        /\ result.status \in {"success", "warning"} => "class" \in DOMAIN result

C2_Witness ==
    /\ Improved
    /\ call.w.fail = Site("base", 0)
    /\ result.status = "error"

\* C3: an exception raised in the prediction step or in the top-3 computation
\* of improved_predict gives status "error" with confidence 0 and probability 0.
C3_ExceptionYieldsError ==
    (Improved /\ call.w.fail # NoFail) =>
        /\ result.status = "error"
        /\ REq(result.confidence, R(0, 1))
        /\ REq(result.probability, R(0, 1))

\* C4: when improved_predict returns status "error" because of an exception,
\* the message carries the text of that exception.
C4_MessageCarriesException ==
    (Improved /\ result.status = "error" /\ call.w.fail # NoFail) =>
        \E k \in 1..Len(result.message.args) :
            result.message.args[k] = ExcText(call.w.fail)

PayloadKeys == {"class", "confidence", "probability", "probabilities", "method", "top_3"}

\* C5: the threshold changes only status and message: class, confidence,
\* probability, probabilities, method and top_3 of a success or warning result
\* are what improved_predict returns for the same prediction under any other
\* threshold.
C5_ThresholdChangesOnlyStatus ==
    Answered =>
        \A t \in Thresholds :
            LET other == improved_predict(call.w, call.use_tta, t,
                                          call.num_augmentations).ret
            IN /\ PayloadKeys \subseteq DOMAIN result
               /\ PayloadKeys \subseteq DOMAIN other
               /\ \A key \in PayloadKeys : result[key] = other[key]

C5_Witness ==
    /\ Improved
    /\ result.status = "warning"
    /\ improved_predict(call.w, call.use_tta, ApiThreshold,
                        call.num_augmentations).ret.status = "success"

Min(a, b) == IF a < b THEN a ELSE b

\* C6: in every success or warning result of improved_predict, top_3 is a list
\* of min(3, number of labels) entries in descending order of probability, each
\* entry's probability is the value of its class in probabilities, and the
\* first entry is the result's class.
C6_Top3MatchesProbabilities ==
    Answered =>
        /\ result.top_3 # None
        /\ LET top == result.top_3.items
           IN /\ Len(top) = Min(3, Len(classes))
              /\ \A k \in 1..(Len(top) - 1) :
                    ~RLt(top[k].probability, top[k + 1].probability)
              /\ \A k \in 1..Len(top) :
                    \E m \in 1..Len(result.probabilities) :
                        /\ result.probabilities[m].key = top[k].class
                        /\ REq(result.probabilities[m].value, top[k].probability)
              /\ top[1].class = result.class

Position(ops, op) == CHOOSE k \in 0..Len(ops) :
                        IF \E j \in 1..Len(ops) : ops[j] = op
                        THEN k > 0 /\ ops[k] = op /\ \A j \in (k + 1)..Len(ops) : ops[j] # op
                        ELSE k = 0

\* C7: every augmented inference of predict_with_tta runs augment, clip to
\* [0,255], family normalization, inference in this order.
C7_NormalizeAfterAugment ==
    \A j \in 1..Len(inferences) :
        inferences[j].site.kind = "aug" =>
            LET ops == inferences[j].ops
            IN /\ 0 < Position(ops, "rot90")
               /\ Position(ops, "rot90") < Position(ops, "clip_by_value")
               /\ Position(ops, "clip_by_value") < Position(ops, preprocess_fn)

RECURSIVE LoggedTotal(_, _)
\* the sum, in tenths, of output i over the first k logged inferences
LoggedTotal(i, k) ==
    IF k = 0 THEN 0 ELSE LoggedTotal(i, k - 1) + inferences[k].out[i].n

\* the mean of output i over the logged inferences
LoggedMean(i) == R(LoggedTotal(i, Len(inferences)), 10 * Len(inferences))

\* C8: predict_with_tta with count K that returns a result made exactly K + 1
\* model inferences, the first on the un-augmented image and K on augmented
\* variants; its probabilities are the element-wise arithmetic mean of the
\* K + 1 outputs, its class is the label at the first maximum of the mean and
\* its probability is the mean at that index.
C8_TTAIsMeanOfInferences ==
    (call.op = "predict_with_tta" /\ result # None) =>
        LET K == call.num_augmentations
            n == Len(classes)
        IN /\ Len(inferences) = K + 1
           /\ inferences[1].site.kind = "base"
           /\ Position(inferences[1].ops, "rot90") = 0
           /\ \A j \in 2..(K + 1) :
                 /\ inferences[j].site = Site("aug", j - 1)
                 /\ Position(inferences[j].ops, "rot90") > 0
           /\ Len(result.probabilities) = n
           /\ \A i \in 1..n :
                 \E m \in 1..n :
                     /\ result.probabilities[m].key = classes[i]
                     /\ REq(result.probabilities[m].value, LoggedMean(i))
           /\ \E i \in 1..n :
                 /\ result.class = classes[i]
                 /\ \A j \in 1..n : ~RLt(LoggedMean(i), LoggedMean(j))
                 /\ \A j \in 1..(i - 1) : RLt(LoggedMean(j), LoggedMean(i))
                 /\ REq(result.probability, LoggedMean(i))

\* the averaged label differs from the label of the un-augmented inference
C8_Witness ==
    /\ call.op = "predict_with_tta"
    /\ result # None
    /\ call.num_augmentations >= 2
    /\ result.class # classes[ArgMax(inferences[1].out)]

ResultKeys == {"class", "confidence", "probability", "probabilities"}

SameResult(a, b) ==
    /\ (a = None) <=> (b = None)
    /\ a # None =>
          \A key \in ResultKeys :
              /\ (key \in DOMAIN a) <=> (key \in DOMAIN b)
              /\ key \in DOMAIN a => a[key] = b[key]

\* C9: with K = 0 augmentations predict_with_tta returns the class, confidence,
\* probability and probabilities of predict_single_direct on the same image and
\* model, and improved_predict with TTA on and K = 0 those of improved_predict
\* with TTA off.
C9_ZeroAugmentationsIsDirect ==
    /\ (call.op = "predict_with_tta" /\ call.num_augmentations = 0) =>
          SameResult(result, predict_single_direct(call.w).ret)
    /\ (Improved /\ call.use_tta /\ call.num_augmentations = 0) =>
          /\ SameResult(result, improved_predict(call.w, FALSE, call.threshold, 0).ret)
          /\ result.status = improved_predict(call.w, FALSE, call.threshold, 0).ret.status

C9_Witness ==
    /\ Improved
    /\ call.use_tta
    /\ call.num_augmentations = 0
    /\ result.status = "success"

\* C10: in every mapping returned by improved_predict, predict_with_tta and
\* predict_single_direct, confidence equals probability times 100.
C10_ConfidenceIsPercent ==
    (call.op \in {"improved_predict", "predict_with_tta", "predict_single_direct"}
        /\ result # None) =>
        result.confidence.n * result.probability.d
            = 100 * result.probability.n * result.confidence.d

C10_Witness ==
    /\ Improved
    /\ call.use_tta
    /\ result.status = "warning"
    /\ result.probability.n > 0

\* the call returned a prediction
Successful ==
    \/ call.op = "predict" /\ ~IsRaise(result)
    \/ call.op \in {"predict_single_direct", "predict_with_tta"} /\ result # None
    \/ Answered

RECURSIVE ValueTotal(_, _)
\* the sum of the first k values of a probabilities mapping
ValueTotal(probabilities, k) ==
    IF k = 1 THEN probabilities[1].value
    ELSE RAdd(ValueTotal(probabilities, k - 1), probabilities[k].value)

\* C11: in every successful prediction of predict, predict_single_direct,
\* predict_with_tta and improved_predict the keys of probabilities are exactly
\* the labels of the instance, the values sum to 1 (the model outputs are
\* normalized distributions) and the entries are in descending order.
C11_ProbabilitiesMapping ==
    Successful =>
        LET probabilities == result.probabilities
            n == Len(probabilities)
        IN /\ {probabilities[k].key : k \in 1..n} = {classes[i] : i \in 1..Len(classes)}
           /\ \A j, k \in 1..n : j # k => probabilities[j].key # probabilities[k].key
           /\ REq(ValueTotal(probabilities, n), R(1, 1))
           /\ \A k \in 1..(n - 1) :
                 ~RLt(probabilities[k].value, probabilities[k + 1].value)

C11_Witness ==
    /\ call.op = "predict"
    /\ ~IsRaise(result)
    /\ result.class # classes[1]
    /\ Len(result.probabilities) = 5

\* C12: predict_batch returns one entry per input, in input order; the entry
\* of an item whose prediction fails holds the item's path and the error
\* message, and every entry is what the item gives when it is predicted alone.
C12_BatchIsolatesFailures ==
    call.op = "predict_batch" =>
        LET image_paths == call.w
            results == result.items
        IN /\ Len(results) = Len(image_paths)
           /\ \A k \in 1..Len(image_paths) :
                 /\ results[k].image_path = image_paths[k].image_path
                 /\ image_paths[k].w.fail # NoFail =>
                       /\ DOMAIN results[k] = {"image_path", "error"}
                       /\ results[k].error = ExcText(image_paths[k].w.fail)
                 /\ image_paths[k].w.fail = NoFail =>
                       /\ DOMAIN results[k]
                            = {"image_path", "class", "confidence", "probabilities"}
                       /\ results[k].confidence = image_paths[k].w.baseOut[
                                                     ArgMax(image_paths[k].w.baseOut)]
                 /\ results[k] = predict_batch(<<image_paths[k]>>).ret.items[1]

C12_Witness ==
    /\ call.op = "predict_batch"
    /\ Len(call.w) = 2
    /\ call.w[1].w.fail = Site("base", 0)
    /\ "class" \in DOMAIN result.items[2]

Constructing == call.op = "ModelManager"

\* the file at classes_path holds a JSON list of label strings
ValidClassFile(file) == file.kind = "json" /\ file.type = "list"

\* C13: when the label-list resource is missing or invalid, the constructor
\* does not raise and the label list of the instance is exactly the default
\* list of five labels.
C13_InvalidLabelsGiveDefault ==
    (Constructing /\ call.w.model_path = "ok" /\ ~ValidClassFile(call.w.classes_path)) =>
        /\ ~IsRaise(result)
        /\ result.classes_type = "list"
        /\ result.classes = DefaultClasses


(***************************************************************************)
(* The model cache                                                         *)
(***************************************************************************)
Getting == call.op = "get_model_manager"

\* the configured name a request for n stands for
Served(n) == IF n \in MODELS_CONFIG THEN n ELSE "ResNet50"

LastConstruction == constructions[Len(constructions)]

\* C14: a get_model_manager call that finds no entry for its name calls the
\* constructor; when the model artifact is missing or cannot be deserialized
\* the constructor raises, the call returns None and the cache is left as it
\* was, so a later call for the name loads again; and no instance whose model
\* is None is ever returned or cached.
C14_LoadFailureNotCached ==
    /\ [][(call'.op = "get_model_manager"
            /\ Served(call'.w.model_name) \notin DOMAIN loaded_models)
          => /\ Len(constructions') = Len(constructions) + 1
             /\ constructions'[Len(constructions')].name = Served(call'.w.model_name)
             /\ call'.w.model_path \in {"missing", "corrupt"}
                => /\ constructions'[Len(constructions')].raised
                   /\ result' = None
                   /\ loaded_models' = loaded_models]_vars
    /\ [](/\ \A n \in DOMAIN loaded_models : loaded_models[n].manager.model = "loaded"
          /\ (Getting /\ result # None) => result.manager.model = "loaded")

\* a second failed load of a name whose first load failed too
C14_Witness ==
    /\ Getting
    /\ call.w.model_path \in {"missing", "corrupt"}
    /\ result = None
    /\ Len(constructions) >= 2
    /\ LastConstruction.raised
    /\ constructions[Len(constructions) - 1].raised
    /\ constructions[Len(constructions) - 1].name = LastConstruction.name
    /\ LastConstruction.name \notin DOMAIN loaded_models

\* C15: with one caller at a time, the constructor runs only inside a
\* get_model_manager call, for the name that call stands for, and only when the
\* cache has no entry for it; a call for a cached name returns the cached
\* instance and constructs nothing; an entry is never removed or replaced.
C15_LazyOnceForever ==
    [][/\ \A n \in DOMAIN loaded_models :
            n \in DOMAIN loaded_models' /\ loaded_models'[n] = loaded_models[n]
       /\ constructions' # constructions
          => /\ call'.op = "get_model_manager"
             /\ Served(call'.w.model_name) \notin DOMAIN loaded_models
             /\ Len(constructions') = Len(constructions) + 1
             /\ constructions'[Len(constructions')].name = Served(call'.w.model_name)
       /\ (call'.op = "get_model_manager"
            /\ Served(call'.w.model_name) \in DOMAIN loaded_models)
          => /\ result' = loaded_models[Served(call'.w.model_name)]
             /\ constructions' = constructions]_vars

\* a call answered with an instance built by an earlier call, after the
\* constructor has run again for other names
C15_Witness ==
    /\ Getting
    /\ result # None
    /\ result.id < Len(constructions)
    /\ loaded_models[Served(call.w.model_name)] = result

\* C18: the cache keys are configured names, and a call naming an unconfigured
\* model, with the default model's artifact loadable, returns the ResNet50
\* instance held in the cache under "ResNet50".
C18_UnknownServedByDefault ==
    /\ DOMAIN loaded_models \subseteq MODELS_CONFIG
    /\ (Getting /\ call.w.model_name \notin MODELS_CONFIG)
       => /\ result # None
             => /\ result.manager.model_type = "ResNet50"
                /\ "ResNet50" \in DOMAIN loaded_models
                /\ loaded_models["ResNet50"] = result
          /\ (call.w.model_path = "ok" \/ "ResNet50" \in DOMAIN loaded_models)
             => result # None

C18_Witness ==
    /\ Getting
    /\ call.w.model_name = "VGG16"
    /\ result # None
    /\ result.manager.model_type = "ResNet50"
    /\ result.manager.img_size = <<224, 224>>


(***************************************************************************)
(* Concurrent requests                                                     *)
(***************************************************************************)
\* the requests that wrote the cache entry of name
Writers(name) ==
    {i \in DOMAIN requests :
        requests[i].wrote > 0 /\ Served(requests[i].selected_model) = name}

LastWriter(name) ==
    CHOOSE i \in Writers(name) :
        \A j \in Writers(name) : requests[j].wrote <= requests[i].wrote

\* C16: when several requests have built and written an instance for the same
\* name, each built its own, the cache holds the instance written last, and
\* every request that wrote earlier goes on with its own instance, which is
\* not the cached one.
C16_LastWriteWins ==
    \A name \in MODELS_CONFIG :
        Writers(name) # {}
        => /\ loaded_models[name] = requests[LastWriter(name)].model_manager
           /\ \A i \in Writers(name) :
                /\ requests[i].current_model = requests[i].model_manager
                /\ i # LastWriter(name)
                   => /\ requests[i].current_model # loaded_models[name]
                      /\ requests[i].model_manager.id
                            # requests[LastWriter(name)].model_manager.id

\* two requests both built and wrote an instance for one name, and the first
\* writer has run its prediction
C16_Witness ==
    \E i, j \in DOMAIN requests :
        /\ i # j
        /\ requests[i].wrote > 0
        /\ requests[j].wrote > requests[i].wrote
        /\ Served(requests[i].selected_model) = Served(requests[j].selected_model)
        /\ requests[i].pc = "done"
        /\ requests[i].read = i
        /\ requests[i].current_model # loaded_models[Served(requests[i].selected_model)]

\* C17: two requests that saved their uploads never have the same saved path,
\* and the file a request's prediction opens holds that request's upload.
C17_SavedNamesNeverCollide ==
    /\ \A i, j \in DOMAIN requests :
        (i # j /\ requests[i].filename # NoFile /\ requests[j].filename # NoFile)
        => requests[i].filename # requests[j].filename
    /\ \A i \in DOMAIN requests : requests[i].read \in {0, i}


(***************************************************************************)
(* Preprocessing selection                                                 *)
(***************************************************************************)
PreprocessFns ==
    {"resnet50.preprocess_input", "efficientnet.preprocess_input",
     "mobilenet_v2.preprocess_input", "generic_rescale"}

\* the function each name selects: case-insensitive substring match, tried in
\* the order resnet, efficientnet, mobilenet, else the generic rescale
SelectedFor(name) ==
    CASE name = "ResNet50" -> "resnet50.preprocess_input"
      [] name = "RESNET101" -> "resnet50.preprocess_input"
      [] name = "EfficientNetB0" -> "efficientnet.preprocess_input"
      [] name = "MobileNet_EfficientNet" -> "efficientnet.preprocess_input"
      [] name = "MobileNetV2" -> "mobilenet_v2.preprocess_input"
      [] name = "VGG16" -> "generic_rescale"

Applied(j, op) == \E k \in 1..Len(inferences[j].ops) : inferences[j].ops[k] = op

SelectionHolds ==
    /\ preprocess_fn \in PreprocessFns
    /\ preprocess_fn = SelectedFor(model_type)

\* C19 as stated: the selection follows the rule and never raises, and every
\* model call of the instance is made on a tensor the selected function was
\* applied to.
C19_EveryPredictionUsesSelection ==
    /\ SelectionHolds
    /\ \A j \in 1..Len(inferences) : Applied(j, preprocess_fn)

\* C19, amended: the selection follows the rule, never raises and never
\* changes; every model call of predict_single_direct, predict_with_tta,
\* get_top_3_predictions and improved_predict is made on a tensor the selected
\* function, and no other family function, was applied to; predict scales by
\* 1/255 instead and does not apply the selected function.
C19_SelectionUsedByTfPath ==
    /\ [](/\ SelectionHolds
          /\ \A j \in 1..Len(inferences) :
                IF call.op = "predict"
                THEN /\ Applied(j, "div_255")
                     /\ \A f \in PreprocessFns : ~Applied(j, f)
                ELSE /\ Applied(j, preprocess_fn)
                     /\ \A f \in PreprocessFns \ {preprocess_fn} : ~Applied(j, f))
    /\ [][preprocess_fn' = preprocess_fn]_vars

\* a name holding two family names, in mixed case: test-time augmentation ran
\* its inferences with the efficientnet function
C19_Witness ==
    /\ model_type = "MobileNet_EfficientNet"
    /\ call.op = "improved_predict"
    /\ call.use_tta
    /\ Len(inferences) >= 2
    /\ \A j \in 1..Len(inferences) : Applied(j, "efficientnet.preprocess_input")


(***************************************************************************)
(* Top 3                                                                   *)
(***************************************************************************)
\* the index of a label in classes
IndexOf(label) == CHOOSE i \in 1..Len(classes) : classes[i] = label

\* C20: the entries get_top_3_predictions returns are the highest
\* probabilities in descending order, and among equal probabilities the
\* smaller index comes first, both between returned entries and between a
\* returned entry and one left out.
C20_Top3TiesAscendingIndex ==
    (call.op = "get_top_3_predictions" /\ result # None)
    => LET top == result.items
           idx == [k \in 1..Len(top) |-> IndexOf(top[k].class)]
           out == call.w.baseOut
           left == (1..Len(out)) \ {idx[k] : k \in 1..Len(top)}
       IN /\ \A k \in 1..Len(top) : REq(top[k].probability, out[idx[k]])
          /\ \A k \in 1..(Len(top) - 1) :
                /\ ~RLt(top[k].probability, top[k + 1].probability)
                /\ REq(top[k].probability, top[k + 1].probability)
                   => idx[k] < idx[k + 1]
          /\ \A j \in left, k \in 1..Len(top) :
                /\ ~RLt(top[k].probability, out[j])
                /\ REq(top[k].probability, out[j]) => idx[k] < j


(***************************************************************************)
(* The instance across calls                                               *)
(***************************************************************************)
PredictionOps ==
    {"predict", "predict_batch", "get_top_3_predictions", "predict_single_direct",
     "predict_with_tta", "improved_predict"}

\* what the operation of call c returns on the instance as it stands, given the
\* files, model outputs and random draws of c
Outcome(c) ==
    CASE c.op = "predict" -> predict(c.w).ret
      [] c.op = "predict_batch" -> predict_batch(c.w).ret
      [] c.op = "get_top_3_predictions" -> get_top_3_predictions(c.w).ret
      [] c.op = "predict_single_direct" -> predict_single_direct(c.w).ret
      [] c.op = "predict_with_tta" -> predict_with_tta(c.w, c.num_augmentations).ret
      [] c.op = "improved_predict" ->
            improved_predict(c.w, c.use_tta, c.threshold, c.num_augmentations).ret

\* C21: no step, a prediction operation that succeeds or fails included,
\* changes classes, model, img_size, model_type or preprocess_fn; and what a
\* call returns is what its operation gives for the call's own inputs on the
\* instance as constructed, whatever calls were served before.
C21_InstanceNeverChanges ==
    /\ [][/\ classes' = classes
          /\ classes_type' = classes_type
          /\ model' = model
          /\ img_size' = img_size
          /\ model_type' = model_type
          /\ preprocess_fn' = preprocess_fn
          /\ call'.op \in PredictionOps => result' = Outcome(call')]_vars
    /\ [](/\ classes = TwoClasses
          /\ model = "loaded"
          /\ img_size = <<256, 256>>
          /\ preprocess_fn = SelectedFor(model_type))

\* a batch with a failed item has run and the instance is as constructed
C21_Witness ==
    /\ call.op = "predict_batch"
    /\ \E k \in 1..Len(result.items) : "error" \in DOMAIN result.items[k]
    /\ \E k \in 1..Len(result.items) : "error" \notin DOMAIN result.items[k]
    /\ classes = TwoClasses
    /\ model = "loaded"
    /\ preprocess_fn = SelectedFor(model_type)


(***************************************************************************)
(* The endpoint's response                                                 *)
(***************************************************************************)
\* C22: a response to an accepted upload has success = TRUE and a prediction
\* exactly when improved_predict returned status success or warning; it is a
\* 500 with success = FALSE when improved_predict returned status error; and
\* it has success = FALSE when get_model_manager returned None.
C22_SuccessOnlyFromModel ==
    (call.op = "api_predict" /\ call.w.filename # NoFile)
    => LET core == call.w.core
       IN /\ (result.success /\ "prediction" \in DOMAIN result)
             <=> (core # None /\ core.status \in {"success", "warning"})
          /\ (core # None /\ core.status = "error")
             => (result.code = 500 /\ ~result.success)
          /\ model = "None" => ~result.success

====
